---- MODULE Spec2Model ----
(***************************************************************************)
(* Model of src/main.py (the PAG API): the downcount loops of /process,    *)
(* /delta and /run-all, the EBU quantity selection, the price lookup, the  *)
(* Delta / Cumulative / Revenue pivots, and the three requests as a whole. *)
(*                                                                         *)
(* A data frame is a sequence of rows in row (index) order.  A row of the  *)
(* PAG is a record [part, po, qty, na, date]: "Part #"/"Material",         *)
(* "Purchasing Document" after clean_po, "Qty remaining to deliver", and   *)
(* the Stat.-Rel. Del. Date.  A missing quantity (NaN) is na = TRUE with   *)
(* qty = 0, which is also what pandas' skipna sums count it as.            *)
(***************************************************************************)
EXTENDS Integers, Sequences, FiniteSets

VARIABLES pc, pag_df, old_df, part, po, requested, qty_to_remove,
          step2_keys, from_missing, prev,
          ship_df, ebu_qty_df, cutoff_dt, ship_latest_dates, shipped_map,
          ebu_counts, new_df, pivot, cumulative,
          ebu_price_df, price_lookup, revenue_pivot,
          delta_cutoff_dt, set_order, process_out, delta_out, run_all_out

loopvars == <<part, po, requested, qty_to_remove, step2_keys, from_missing>>
inputs == <<ship_df, ebu_qty_df, cutoff_dt>>
maps == <<ship_latest_dates, shipped_map, ebu_counts>>
reports == <<new_df, pivot, cumulative>>
prices == <<ebu_price_df, price_lookup, revenue_pivot>>
calls == <<delta_cutoff_dt, set_order, process_out, delta_out, run_all_out>>
vars == <<pc, pag_df, old_df, loopvars, prev, inputs, maps, reports, prices, calls>>

(***************************************************************************)
(* Bounds of the model.                                                    *)
(***************************************************************************)
MaxLines == 3
MaxQty == 2
MaxRemove == 3
MaxPO == 2
\* the process specification: rows of the PAG, the shipment file and the
\* EBU workbook, and the latest day
MaxPagRows == 2
MaxShipRows == 2
MaxEbuRows == 2
MaxDay == 3
\* the delta specification: rows of each snapshot, the latest Stat.-Rel.
\* date, and the days of a month of the model's calendar
MaxDeltaRows == 2
MaxStatDay == 5
DaysPerMonth == 2
\* the price rows of the EBU workbook
MaxPriceRows == 2
\* the requests served as a whole: rows of the PAG and the EBU workbook,
\* rows of the old PAG and the price columns, and rows of the shipment file
MaxCallRows == 2
MaxCallSideRows == 1
MaxCallShipRows == 2

(***************************************************************************)
(* Missing values.                                                         *)
(***************************************************************************)
\* clean_po returns None for a blank or unparsable PO
NoPO == 0
\* a blank "Part #" cell
NoPart == ""
\* pd.to_datetime(..., errors="coerce") of an unparsable date
NaT == 0

Parts == {"P1", "P2"}
POs == 1..MaxPO
Keys == Parts \X POs

\* the groupby / dict order of (Part #, Purchasing Document) keys
PartOrd(p) == IF p = "P1" THEN 1 ELSE IF p = "P2" THEN 2 ELSE 0
KeyOrd(k) == PartOrd(k[1]) * (MaxPO + 1) + k[2]

Abs(x) == IF x < 0 THEN -x ELSE x

(***************************************************************************)
(* The downcount loop (process_files lines 165-181 and 231-246,            *)
(* delta_report lines 312-327, run_all lines 478-494, 538-553, 577-592:    *)
(* the same statements each time).                                         *)
(***************************************************************************)
\* a mask that forgets the Purchasing Document
MaskPartOnly(row, p, d) == row.part # NoPart /\ row.part = p

\* mask = (df["Part #"] == part) & (df["Purchasing Document"] == po);
\* a missing value equals nothing
Mask(row, p, d) ==
    /\ row.part # NoPart /\ row.part = p
    /\ row.po # NoPO /\ row.po = d

\* a loop body that subtracts without comparing available to the request
DowncountLineNoClamp(row, qty) ==
    IF ~row.na /\ row.qty > 0
    THEN [row |-> [row EXCEPT !.qty = row.qty - qty], qty_to_remove |-> 0]
    ELSE [row |-> row, qty_to_remove |-> qty]

\* a loop body that zeroes a line without taking it off the request
DowncountLineNoDecrement(row, qty) ==
    IF ~row.na /\ row.qty > 0
    THEN IF row.qty <= qty
         THEN [row |-> [row EXCEPT !.qty = 0], qty_to_remove |-> qty]
         ELSE [row |-> [row EXCEPT !.qty = row.qty - qty], qty_to_remove |-> 0]
    ELSE [row |-> row, qty_to_remove |-> qty]

\* a loop body that does not stop after a partial reduction
DowncountLineNoStop(row, qty) ==
    IF ~row.na /\ row.qty > 0
    THEN IF row.qty <= qty
         THEN [row |-> [row EXCEPT !.qty = 0], qty_to_remove |-> qty - row.qty]
         ELSE [row |-> [row EXCEPT !.qty = row.qty - qty], qty_to_remove |-> qty]
    ELSE [row |-> row, qty_to_remove |-> qty]

\* a loop body without the available > 0 test
DowncountLineNoSkip(row, qty) ==
    IF ~row.na
    THEN IF row.qty <= qty
         THEN [row |-> [row EXCEPT !.qty = 0], qty_to_remove |-> qty - row.qty]
         ELSE [row |-> [row EXCEPT !.qty = row.qty - qty], qty_to_remove |-> 0]
    ELSE [row |-> row, qty_to_remove |-> qty]

\* one pass of the inner loop body on a matching row: the row's new
\* quantity and the quantity still to remove
DowncountLine(row, qty) ==
    LET available == row.qty IN
    IF ~row.na /\ available > 0
    THEN IF available <= qty
         THEN [row |-> [row EXCEPT !.qty = 0], qty_to_remove |-> qty - available]
         ELSE [row |-> [row EXCEPT !.qty = available - qty], qty_to_remove |-> 0]
    ELSE [row |-> row, qty_to_remove |-> qty]

\* for idx in df[mask].index, from row idx on
RECURSIVE DowncountRows(_, _, _, _, _)
DowncountRows(df, idx, p, d, qty) ==
    IF idx > Len(df) \/ qty <= 0
    THEN [df |-> df, qty_to_remove |-> qty]
    ELSE IF ~Mask(df[idx], p, d)
         THEN DowncountRows(df, idx + 1, p, d, qty)
         ELSE LET r == DowncountLine(df[idx], qty) IN
              DowncountRows([df EXCEPT ![idx] = r.row], idx + 1, p, d, r.qty_to_remove)

\* an iteration that takes the absolute value of every quantity, as step 1 does
DowncountAbs(df, p, d, qty) == DowncountRows(df, 1, p, d, Abs(qty))

\* the body of one iteration of the loop over the (part, po) -> quantity map
Downcount(df, p, d, qty) ==
    IF qty <= 0
    THEN [df |-> df, qty_to_remove |-> qty]
    ELSE DowncountRows(df, 1, p, d, qty)

\* Step 1: qty_to_remove = abs(total_shipped)
Step1Qty(total_shipped) == Abs(total_shipped)

\* a loop header that adds the quantity to what the last iteration left
Step2QtyCarry(qty, left) == qty + left

\* Step 2: the loop header binds qty_to_remove to the item of ebu_counts,
\* overwriting what the last iteration left in it
Step2Qty(qty, left) == qty

(***************************************************************************)
(* Date cells.  A date cell of the PAG is a date (a day number), blank     *)
(* (NaT) or text that is no date.                                          *)
(***************************************************************************)
\* a Stat.-Rel. Del. Date cell holding text such as "TBD"
TextDate == -2

\* pd.to_datetime(cell, errors="coerce")
ToDatetime(cell) == IF cell = TextDate THEN NaT ELSE cell

\* process_files 253-255: every column with "Date" in its name is made a
\* datetime column
CoerceDates(df) == [i \in 1..Len(df) |-> [df[i] EXCEPT !.date = ToDatetime(@)]]

\* df["Stat_Rel_Date"] = pd.to_datetime(df[date_col], errors="coerce"): the
\* frame with the column Month is computed from
StatRelDate(df) == [i \in 1..Len(df) |-> [df[i] EXCEPT !.date = ToDatetime(@)]]

(***************************************************************************)
(* Inputs of the downcount specification.                                  *)
(***************************************************************************)
QtyRow(k, q, isna) == [part |-> k[1], po |-> k[2], qty |-> q, na |-> isna, date |-> 1]

\* a line whose Stat.-Rel. Del. Date cell holds text
TextDateRow == [QtyRow(<<"P1", 1>>, MaxQty, FALSE) EXCEPT !.date = TextDate]

Rows == {QtyRow(k, q, FALSE) : k \in Keys, q \in -1..MaxQty}
            \cup {QtyRow(k, 0, TRUE) : k \in Keys}
            \cup {TextDateRow}

Frames == UNION {[1..n -> Rows] : n \in 0..MaxLines}

Totals == -MaxRemove..MaxRemove
EbuQtys == -1..MaxRemove

(***************************************************************************)
(* Spec: the three downcount rounds.  A /process request runs round 1 over *)
(* shipped_map and then round 2 over ebu_counts on pag_df; a /delta        *)
(* request runs the EBU downcount on old_df.  Each iteration takes the     *)
(* next item of the dict, whose keys are distinct.  shipped_map and the    *)
(* ebu_counts of /delta come from a groupby: their items are in key order. *)
(* The ebu_counts of /process is filled in two parts: A) the keys of the   *)
(* shipment file in key order, B) the PAG keys missing from the shipment   *)
(* file, in the order their set is iterated, those with quantity 0 left    *)
(* out.                                                                    *)
(***************************************************************************)
\* no price rows were read and no Revenue sheet written
NoPrices == ebu_price_df = <<>> /\ price_lookup = <<>> /\ revenue_pivot = <<>>

\* no request was served as a whole
NoCalls ==
    /\ delta_cutoff_dt = NaT /\ set_order = <<>>
    /\ process_out = <<>> /\ delta_out = <<>> /\ run_all_out = <<>>

\* round 2 has taken no item of ebu_counts
NoStep2Keys == step2_keys = {} /\ from_missing = FALSE

NoInputs ==
    /\ ship_df = <<>> /\ ebu_qty_df = <<>> /\ cutoff_dt = NaT
    /\ ship_latest_dates = <<>> /\ shipped_map = <<>> /\ ebu_counts = <<>>
    /\ new_df = <<>> /\ pivot = <<>> /\ cumulative = <<>>
    /\ NoPrices /\ NoCalls

Init ==
    /\ part = NoPart /\ po = NoPO
    /\ requested = 0 /\ qty_to_remove = 0
    /\ NoStep2Keys
    /\ prev = <<>>
    /\ NoInputs
    /\ \/ pc = "step1" /\ pag_df \in Frames /\ old_df = <<>>
       \/ pc = "old" /\ old_df \in Frames /\ pag_df = <<>>

\* the next key of a dict made by a groupby
Later(k) == KeyOrd(k) > KeyOrd(<<part, po>>)

\* the next item of the ebu_counts of /process: an item of A (191-200)
\* follows only items of A, in key order; an item of B (216-226) is a key
\* not yet in the dict, with a quantity other than 0
NextItem(k, qty) ==
    \/ ~from_missing /\ Later(k)
    \/ k \notin step2_keys /\ qty # 0

\* process_files 165-181: one item of shipped_map
Step1Downcount ==
    /\ pc = "step1"
    /\ \E k \in Keys, total_shipped \in Totals :
          /\ Later(k)
          /\ LET r == Downcount(pag_df, k[1], k[2], Step1Qty(total_shipped)) IN
                /\ pag_df' = r.df
                /\ qty_to_remove' = r.qty_to_remove
                /\ requested' = Step1Qty(total_shipped)
                /\ part' = k[1] /\ po' = k[2]
    /\ prev' = pag_df
    /\ UNCHANGED <<pc, old_df, step2_keys, from_missing, inputs, maps, reports, prices, calls>>

\* shipped_map is exhausted; round 2 starts
Step1End ==
    /\ pc = "step1"
    /\ pc' = "step2"
    /\ part' = NoPart /\ po' = NoPO
    /\ requested' = 0
    /\ prev' = pag_df
    /\ UNCHANGED <<pag_df, old_df, qty_to_remove, step2_keys, from_missing,
                   inputs, maps, reports, prices, calls>>

\* process_files 231-246: one item of ebu_counts, in insertion order
Step2Downcount ==
    /\ pc = "step2"
    /\ \E k \in Keys, qty \in EbuQtys :
          /\ NextItem(k, qty)
          /\ LET r == Downcount(pag_df, k[1], k[2], Step2Qty(qty, qty_to_remove)) IN
                /\ pag_df' = r.df
                /\ qty_to_remove' = r.qty_to_remove
                /\ requested' = qty
                /\ part' = k[1] /\ po' = k[2]
          /\ step2_keys' = step2_keys \cup {k}
          /\ from_missing' = (from_missing \/ ~Later(k))
    /\ prev' = pag_df
    /\ UNCHANGED <<pc, old_df, inputs, maps, reports, prices, calls>>

\* ebu_counts is exhausted: the date columns are made datetime columns
\* (253-255) and the workbook is written
Step2End ==
    /\ pc = "step2"
    /\ pc' = "done"
    /\ pag_df' = CoerceDates(pag_df)
    /\ part' = NoPart /\ po' = NoPO
    /\ requested' = 0 /\ qty_to_remove' = 0
    /\ prev' = pag_df
    /\ UNCHANGED <<old_df, step2_keys, from_missing, inputs, maps, reports, prices, calls>>

\* delta_report 312-327: one item of ebu_counts, on the old snapshot
OldDowncount ==
    /\ pc = "old"
    /\ \E k \in Keys, qty \in EbuQtys :
          /\ Later(k)
          /\ LET r == Downcount(old_df, k[1], k[2], Step2Qty(qty, qty_to_remove)) IN
                /\ old_df' = r.df
                /\ qty_to_remove' = r.qty_to_remove
                /\ requested' = qty
                /\ part' = k[1] /\ po' = k[2]
    /\ prev' = old_df
    /\ UNCHANGED <<pc, pag_df, step2_keys, from_missing, inputs, maps, reports, prices, calls>>

OldEnd ==
    /\ pc = "old"
    /\ pc' = "done"
    /\ part' = NoPart /\ po' = NoPO
    /\ requested' = 0 /\ qty_to_remove' = 0
    /\ prev' = old_df
    /\ UNCHANGED <<pag_df, old_df, step2_keys, from_missing, inputs, maps, reports, prices, calls>>

Next ==
    \/ Step1Downcount
    \/ Step1End
    \/ Step2Downcount
    \/ Step2End
    \/ OldDowncount
    \/ OldEnd

Spec == Init /\ [][Next]_vars

(***************************************************************************)
(* What an iteration of a downcount round did.  After Step1Downcount,      *)
(* Step2Downcount or OldDowncount, prev is the frame before the iteration, *)
(* cur the frame after it, (part, po) its key, requested the quantity to   *)
(* remove it started with and qty_to_remove what was left of it.           *)
(***************************************************************************)
cur == IF pc = "old" THEN old_df ELSE pag_df

Acted == pc \in {"step1", "step2", "old"} /\ part # NoPart

Matching == {i \in 1..Len(prev) : Mask(prev[i], part, po)}

Positive(row) == ~row.na /\ row.qty > 0

RECURSIVE SumOver(_, _)
SumOver(f, S) ==
    IF S = {} THEN 0
    ELSE LET i == CHOOSE x \in S : TRUE IN f[i] + SumOver(f, S \ {i})

Before == [i \in 1..Len(prev) |-> prev[i].qty]
After == [i \in 1..Len(cur) |-> cur[i].qty]

\* sum of before minus after over the matching lines
Removed == SumOver(Before, Matching) - SumOver(After, Matching)
\* sum of the quantity over all matching lines, and over the positive ones
Available == SumOver(Before, Matching)
AvailablePositive == SumOver(Before, {i \in Matching : Positive(prev[i])})

Min(a, b) == IF a < b THEN a ELSE b

(***************************************************************************)
(* C1                                                                      *)
(***************************************************************************)
\* C1 as stated: after every step of every downcount round, whatever the
\* input lines and quantities, every line's quantity is >= 0.
C1_NeverNegative ==
    Acted => \A i \in 1..Len(cur) : cur[i].qty >= 0

\* C1 as amended: a downcount step never makes a quantity negative. Every
\* line whose quantity was >= 0 before the step is >= 0 after it, in round
\* 1, round 2 and the old-snapshot round; a line that is negative after a
\* step was already negative, with the same value, before it.
C1_NonNegativePreserved ==
    Acted =>
        /\ Len(cur) = Len(prev)
        /\ \A i \in 1..Len(cur) :
              /\ prev[i].qty >= 0 => cur[i].qty >= 0
              /\ cur[i].qty < 0 => cur[i] = prev[i]

\* a step that reduced a line to exactly 0 next to a partially reduced one
C1_Witness ==
    /\ Acted
    /\ \E i, j \in Matching :
          /\ prev[i].qty > 0 /\ cur[i].qty = 0
          /\ prev[j].qty > cur[j].qty /\ cur[j].qty > 0

(***************************************************************************)
(* C2                                                                      *)
(***************************************************************************)
\* C2 as stated: the total removed from a group is <= the quantity to
\* remove requested for it and <= the sum of the quantity over all its
\* matching lines before the round.
C2_RemovedAtMostRequestedAndSum ==
    Acted => Removed <= requested /\ Removed <= Available

\* C2 as amended: the total removed from a group is >= 0, is <= the
\* requested quantity whenever that quantity is >= 0 (nothing is removed
\* when it is <= 0), and is <= the sum of the positive quantities of the
\* group's matching lines before the round.
C2_RemovedAtMostRequestedAndPositive ==
    Acted =>
        /\ Removed >= 0
        /\ requested >= 0 => Removed <= requested
        /\ requested <= 0 => Removed = 0
        /\ Removed <= AvailablePositive

\* a group with a negative and a positive line from which something was removed
C2_Witness ==
    /\ Acted
    /\ Removed > 0
    /\ Removed > Available
    /\ \E i \in Matching : prev[i].qty < 0

(***************************************************************************)
(* C3                                                                      *)
(***************************************************************************)
\* the spec's example: lines [10, 5] of one key, 12 to remove, give [0, 3]
ExampleRows == <<QtyRow(<<"P1", 1>>, 10, FALSE), QtyRow(<<"P1", 1>>, 5, FALSE)>>
ExampleResult == Downcount(ExampleRows, "P1", 1, 12).df

\* C3: a group's matching lines are consumed greedily in row order. A
\* positive line is reduced only after every earlier matching positive line
\* is 0; at most one line is left partially reduced; every matching line
\* after a line that stayed positive is unchanged; the lines zeroed and the
\* partial one together account for min(requested, available); and
\* [10, 5] with 12 to remove becomes [0, 3].
C3_GreedyInRowOrder ==
    /\ ExampleResult[1].qty = 0 /\ ExampleResult[2].qty = 3
    /\ Acted =>
        /\ \A i \in Matching :
              cur[i].qty < prev[i].qty =>
                  \A h \in Matching : h < i /\ Positive(prev[h]) => cur[h].qty = 0
        /\ Cardinality({i \in Matching : 0 < cur[i].qty /\ cur[i].qty < prev[i].qty}) <= 1
        /\ \A i \in Matching :
              Positive(prev[i]) /\ cur[i].qty > 0 =>
                  \A h \in Matching : h > i => cur[h] = prev[h]
        /\ requested > 0 => Removed = Min(requested, AvailablePositive)

\* three positive lines of one key: the first zeroed, the second partially
\* reduced, the third unchanged
C3_Witness ==
    /\ Acted
    /\ \E i, j, h \in Matching :
          /\ i < j /\ j < h
          /\ prev[i].qty > 0 /\ cur[i].qty = 0
          /\ 0 < cur[j].qty /\ cur[j].qty < prev[j].qty
          /\ prev[h].qty > 0 /\ cur[h] = prev[h]

(***************************************************************************)
(* C4                                                                      *)
(***************************************************************************)
Others == (1..Len(prev)) \ Matching

\* C4 as stated: when the quantity to remove exceeds the total positive
\* quantity of the group's lines, those lines all become 0 and the rest is
\* discarded (no line of another key changes, round 2 removes no more than
\* its own quantity); otherwise the amount removed equals the requested
\* quantity exactly.
C4_ExcessDroppedElseExact ==
    Acted =>
        /\ requested > AvailablePositive =>
              /\ \A i \in Matching : Positive(prev[i]) => cur[i].qty = 0
              /\ \A i \in Others : cur[i] = prev[i]
              /\ Removed = AvailablePositive
        /\ requested <= AvailablePositive => Removed = requested

\* C4 as amended: as stated, except that "otherwise the amount removed
\* equals the requested quantity exactly" holds for a requested quantity
\* >= 0; a negative quantity to remove (a negative EBU sum) removes nothing.
\* The quantity left over is in no case applied to a later iteration: each
\* iteration of round 2 removes min(its own quantity, available).
C4_ExcessDroppedElseExactIfNonNegative ==
    Acted =>
        /\ requested > AvailablePositive =>
              /\ \A i \in Matching : Positive(prev[i]) => cur[i].qty = 0
              /\ \A i \in Others : cur[i] = prev[i]
              /\ Removed = AvailablePositive
              /\ qty_to_remove = requested - AvailablePositive
        /\ requested >= 0 /\ requested <= AvailablePositive =>
              Removed = requested /\ qty_to_remove = 0
        /\ requested < 0 => Removed = 0

\* a round-2 iteration that asks for more than the positive lines of its
\* key hold, while a line of another key stays positive
C4_Witness ==
    /\ pc = "step2" /\ Acted
    /\ requested > AvailablePositive
    /\ AvailablePositive > 0
    /\ qty_to_remove > 0
    /\ \E i \in Others : Positive(cur[i])

(***************************************************************************)
(* C5                                                                      *)
(***************************************************************************)
\* C5: in each of the three rounds, an iteration whose quantity to remove
\* (the absolute shipment total in round 1, the EBU sum in round 2 and in
\* the old-snapshot round) is zero or negative leaves every line unchanged.
C5_NonPositiveIsNoOp ==
    Acted /\ requested <= 0 => cur = prev

\* a negative quantity to remove for a key that has a positive line
C5_Witness ==
    /\ Acted
    /\ requested < 0
    /\ \E i \in Matching : Positive(prev[i])

(***************************************************************************)
(* C6                                                                      *)
(***************************************************************************)
\* C6: an iteration for key (part, po) changes nothing but the quantity of
\* lines whose Part and PO both equal the key: every other line is the
\* same after it, the matching lines keep their other columns, and a key
\* that matches no line changes nothing.
C6_OnlyMatchingLinesChange ==
    Acted =>
        /\ Len(cur) = Len(prev)
        /\ \A i \in 1..Len(prev) :
              /\ ~(prev[i].part = part /\ prev[i].po = po) => cur[i] = prev[i]
              /\ cur[i] = [prev[i] EXCEPT !.qty = cur[i].qty]
        /\ Matching = {} => cur = prev

\* a line was reduced while positive lines with the same part and another
\* PO, and with the same PO and another part, were there
C6_Witness ==
    /\ Acted
    /\ cur # prev
    /\ \E i, j \in Others :
          /\ prev[i].part = part /\ prev[i].po # po /\ Positive(prev[i])
          /\ prev[j].part # part /\ prev[j].po = po /\ Positive(prev[j])

(***************************************************************************)
(* C7                                                                      *)
(***************************************************************************)
Skipped(row) == row.na \/ row.qty < 0

\* C7: a matching line whose quantity is negative or missing is skipped:
\* it is left exactly as it was, it consumes nothing (what is removed from
\* the positive lines plus what is left over is the whole request), and the
\* loop goes on to the next matching line, which is reduced when something
\* is still to remove.
C7_NegativeOrMissingSkipped ==
    Acted =>
        /\ \A i \in Matching : Skipped(prev[i]) => cur[i] = prev[i]
        /\ requested > 0 => Removed + qty_to_remove = requested
        /\ \A i, h \in Matching :
              /\ Skipped(prev[i]) /\ i < h /\ Positive(prev[h])
              /\ requested > SumOver(Before, {g \in Matching : g < h /\ Positive(prev[g])})
              => cur[h].qty < prev[h].qty

\* a negative and a missing line ahead of a positive line that was reduced
C7_Witness ==
    /\ Acted
    /\ \E i, j, h \in Matching :
          /\ i < h /\ j < h
          /\ prev[i].qty < 0 /\ prev[j].na
          /\ cur[h].qty < prev[h].qty

(***************************************************************************)
(* process_files as a whole: the shipment groupby, step 1, the EBU         *)
(* quantities of step 2 (ship-based cutoff, then the caller's cutoff for   *)
(* the PAG keys missing from the shipment file), and step 2.               *)
(*                                                                         *)
(* A shipment row is [part, po, total, slip] ("Total général" and the      *)
(* SlipDate parsed from PackingSlip); an EBU row is [part, po, date, qty]  *)
(* ("Ship Date" and "(f) Qty" as parse_ebu returns them).                  *)
(***************************************************************************)
\* cutoff_dt = None: no cutoff_date was posted
NoCutoff == -1

Key(row) == <<row.part, row.po>>

\* the groups of df.groupby(["Part #", "Purchasing Document"]): rows with a
\* missing key column are dropped
GroupKeys(df) ==
    {Key(df[i]) : i \in {j \in 1..Len(df) : df[j].part # NoPart /\ df[j].po # NoPO}}

GroupRows(df, k) == {i \in 1..Len(df) : Mask(df[i], k[1], k[2])}

\* max() of a group's dates, skipping NaT; NaT when there is none
MaxDate(dates) ==
    IF dates \ {NaT} = {} THEN NaT
    ELSE CHOOSE d \in dates \ {NaT} : \A e \in dates \ {NaT} : e <= d

\* ship_df.groupby([...])["SlipDate"].max()
ShipLatestDates(df) ==
    [k \in GroupKeys(df) |-> MaxDate({df[i].slip : i \in GroupRows(df, k)})]

\* ship_df.groupby([...])["Total général"].sum().to_dict()
ShippedMap(df) ==
    [k \in GroupKeys(df) |->
        SumOver([i \in 1..Len(df) |-> df[i].total], GroupRows(df, k))]

\* a comparison that also takes the rows of the cutoff day
OnOrAfter(date, cutoff) == date # NaT /\ cutoff # NaT /\ date >= cutoff

\* ebu_qty_df["Ship Date"] > cutoff: false when either side is NaT
IsAfter(date, cutoff) == date # NaT /\ cutoff # NaT /\ date > cutoff

\* ebu_qty_df.loc[(Part # == part) & (PO == po) & (Ship Date > cutoff), "(f) Qty"].sum()
EbuQty(ebu, k, cutoff) ==
    SumOver([i \in 1..Len(ebu) |-> ebu[i].qty],
            {i \in GroupRows(ebu, k) : IsAfter(ebu[i].date, cutoff)})

\* pag_keys: the (Part #, PO) of the PAG rows with both present
PagKeys(df) == GroupKeys(df)

\* missing_ship_keys = pag_keys - ship_keys
MissingShipKeys(pag, latest) == PagKeys(pag) \ DOMAIN latest

\* A) one entry for every shipment key whose latest slip date is a date
EbuCountsShip(latest, ebu) ==
    [k \in {x \in DOMAIN latest : latest[x] # NaT} |-> EbuQty(ebu, k, latest[k])]

\* B) the missing keys whose quantity after cutoff_dt is not 0
EbuCountsMissing(pag, latest, ebu, cutoff) ==
    IF cutoff = NoCutoff THEN <<>>
    ELSE [k \in {x \in MissingShipKeys(pag, latest) : EbuQty(ebu, x, cutoff) # 0}
            |-> EbuQty(ebu, k, cutoff)]

\* ebu_counts after A and B (a missing key is in no entry of A)
EbuCounts(pag, latest, ebu, cutoff) ==
    LET a == EbuCountsShip(latest, ebu)
        b == EbuCountsMissing(pag, latest, ebu, cutoff)
    IN [k \in DOMAIN a \cup DOMAIN b |-> IF k \in DOMAIN b THEN b[k] ELSE a[k]]

\* a test that asks for the cutoff whether or not a key is missing
RaisesWithoutCutoff(pag, latest, cutoff) == cutoff = NoCutoff

\* if missing_ship_keys and cutoff_dt is None: raise ValueError
RaisesValueError(pag, latest, cutoff) ==
    MissingShipKeys(pag, latest) # {} /\ cutoff = NoCutoff

\* a downcount loop over all the items of a map, in key order
RECURSIVE Round(_, _, _)
Round(df, map, todo) ==
    IF todo = {} THEN df
    ELSE LET k == CHOOSE x \in todo : \A y \in todo : KeyOrd(x) <= KeyOrd(y) IN
         Round(Downcount(df, k[1], k[2], map[k]).df, map, todo \ {k})

Step1Round(df, map) == Round(df, [k \in DOMAIN map |-> Step1Qty(map[k])], DOMAIN map)
Step2Round(df, map) == Round(df, map, DOMAIN map)

\* the (Part #, Purchasing Document) keys of a set in groupby order
RECURSIVE SortedKeys(_)
SortedKeys(S) ==
    IF S = {} THEN <<>>
    ELSE LET k == CHOOSE x \in S : \A y \in S : KeyOrd(x) <= KeyOrd(y) IN
         <<k>> \o SortedKeys(S \ {k})

\* the members of a set of keys in the order this interpreter iterates
\* them: the order of their hashes, the same for every set
RECURSIVE InOrder(_, _, _)
InOrder(S, order, i) ==
    IF i > Len(order) THEN <<>>
    ELSE (IF order[i] \in S THEN <<order[i]>> ELSE <<>>) \o InOrder(S, order, i + 1)

\* a loop that leaves at the first quantity that is not positive
RECURSIVE RoundInOrderBreak(_, _, _, _)
RoundInOrderBreak(df, map, keys, i) ==
    IF i > Len(keys) \/ map[keys[i]] <= 0 THEN df
    ELSE RoundInOrderBreak(Downcount(df, keys[i][1], keys[i][2], map[keys[i]]).df,
                           map, keys, i + 1)

\* a downcount loop over the items of a dict, in the order of its keys
RECURSIVE RoundInOrder(_, _, _, _)
RoundInOrder(df, map, keys, i) ==
    IF i > Len(keys) THEN df
    ELSE RoundInOrder(Downcount(df, keys[i][1], keys[i][2], map[keys[i]]).df, map, keys, i + 1)

\* step1_df: one row per item of shipped_map
Step1Sheet(shipped) ==
    LET keys == SortedKeys(DOMAIN shipped) IN
    [i \in 1..Len(keys) |->
        [Material |-> keys[i][1], PO |-> keys[i][2], Step1_Downcount |-> shipped[keys[i]]]]

\* latest_df: one row per item of ship_latest_dates
LatestSheet(latest) ==
    LET keys == SortedKeys(DOMAIN latest) IN
    [i \in 1..Len(keys) |->
        [Material |-> keys[i][1], PO |-> keys[i][2], Latest_SlipDate |-> latest[keys[i]]]]

\* the keys of ebu_counts in insertion order: A) the shipment keys with a
\* latest slip date, in groupby order; B) the missing keys with a quantity
\* other than 0, in the iteration order of the set
EbuCountKeys(pag, latest, ebu, cutoff, order) ==
    SortedKeys(DOMAIN EbuCountsShip(latest, ebu))
        \o InOrder(DOMAIN EbuCountsMissing(pag, latest, ebu, cutoff), order, 1)

\* step2_df: one row per quantity appended to step2_rows
Step2Sheet(counts, keys) ==
    [i \in 1..Len(keys) |->
        [Material |-> keys[i][1], PO |-> keys[i][2], Step2_Downcount |-> counts[keys[i]]]]

\* a price cell that is blank or not a number
NaNPrice == -1

\* pd.to_numeric(..., errors="coerce").fillna(0)
ToNumeric(x) == IF x = NaNPrice THEN 0 ELSE x

\* the rows of a frame at the indices of keep, in row order, from row i on
RECURSIVE Take(_, _, _)
Take(rows, keep, i) ==
    IF i > Len(rows) THEN <<>>
    ELSE (IF i \in keep THEN <<rows[i]>> ELSE <<>>) \o Take(rows, keep, i + 1)

\* a lookup that keeps the first row of every key
DropDuplicatesKeepFirst(rows) ==
    Take(rows, {i \in 1..Len(rows) : \A j \in 1..(i - 1) : Key(rows[j]) # Key(rows[i])}, 1)

\* .drop_duplicates(subset=["Material", "Purchasing Document"], keep="last"):
\* a row stays when no later row has its key (two missing values are equal
\* here)
DropDuplicates(rows) ==
    Take(rows, {i \in 1..Len(rows) : \A j \in (i + 1)..Len(rows) : Key(rows[j]) # Key(rows[i])}, 1)

\* parse_ebu: the Unit_Price column made numeric, the frames concatenated,
\* the duplicates dropped
PriceLookup(rows) ==
    DropDuplicates([i \in 1..Len(rows) |-> [rows[i] EXCEPT !.price = ToNumeric(@)]])

(***************************************************************************)
(* Inputs of the process specification.                                    *)
(***************************************************************************)
ProcessKeys == Parts \X {1}

\* the orders a set of the keys can be iterated in
SetOrders == {<<<<"P1", 1>>, <<"P2", 1>>>>, <<<<"P2", 1>>, <<"P1", 1>>>>}

PagRow(k) == QtyRow(k, MaxQty, FALSE)
PagRows == {PagRow(k) : k \in ProcessKeys} \cup {PagRow(<<"P1", NoPO>>)}
PagFrames == UNION {[1..n -> PagRows] : n \in 0..MaxPagRows}

ShipRows == [part : Parts, po : {1}, total : {1}, slip : {NaT, 1, 2}]
ShipFrames == UNION {[1..n -> ShipRows] : n \in 0..MaxShipRows}

EbuRows == [part : Parts, po : {1}, date : {NaT} \cup 1..MaxDay, qty : {1, 2}]
EbuFrames == UNION {[1..n -> EbuRows] : n \in 0..MaxEbuRows}

\* cutoff_date not posted, posted but no date, posted
Cutoffs == {NoCutoff, NaT, 2}

InitProcess ==
    /\ pc = "read"
    /\ pag_df \in PagFrames /\ old_df = <<>>
    /\ ship_df \in ShipFrames
    /\ ebu_qty_df \in EbuFrames
    /\ cutoff_dt \in Cutoffs
    /\ part = NoPart /\ po = NoPO /\ requested = 0 /\ qty_to_remove = 0
    /\ NoStep2Keys
    /\ prev = <<>>
    /\ ship_latest_dates = <<>> /\ shipped_map = <<>> /\ ebu_counts = <<>>
    /\ new_df = <<>> /\ pivot = <<>> /\ cumulative = <<>>
    /\ NoPrices /\ NoCalls

\* process_files 152-181: the shipment groupby and step 1
ProcessStep1 ==
    /\ pc = "read"
    /\ ship_latest_dates' = ShipLatestDates(ship_df)
    /\ shipped_map' = ShippedMap(ship_df)
    /\ pag_df' = Step1Round(pag_df, ShippedMap(ship_df))
    /\ prev' = pag_df
    /\ pc' = "ebu"
    /\ UNCHANGED <<old_df, loopvars, inputs, ebu_counts, reports, prices, calls>>

\* process_files 211-214: a missing key and no cutoff
ProcessRaise ==
    /\ pc = "ebu"
    /\ RaisesValueError(pag_df, ship_latest_dates, cutoff_dt)
    /\ pc' = "error"
    /\ UNCHANGED <<pag_df, old_df, loopvars, prev, inputs, maps, reports, prices, calls>>

\* process_files 184-272: the price lookup, the EBU quantities, step 2 in
\* the order ebu_counts was filled (the missing keys in the order their set
\* is iterated), the date columns and the workbook
ProcessStep2 ==
    /\ pc = "ebu"
    /\ ~RaisesValueError(pag_df, ship_latest_dates, cutoff_dt)
    /\ \E order \in SetOrders :
          LET counts == EbuCounts(pag_df, ship_latest_dates, ebu_qty_df, cutoff_dt)
              keys == EbuCountKeys(pag_df, ship_latest_dates, ebu_qty_df, cutoff_dt, order)
              pag_output == CoerceDates(RoundInOrder(pag_df, counts, keys, 1))
          IN /\ set_order' = order
             /\ ebu_counts' = counts
             /\ price_lookup' = PriceLookup(ebu_price_df)
             /\ pag_df' = pag_output
             /\ process_out' = [Updated |-> pag_output,
                                Latest_Dates |-> LatestSheet(ship_latest_dates),
                                Step1_Downcount |-> Step1Sheet(shipped_map),
                                Step2_Downcount |-> Step2Sheet(counts, keys),
                                Price_Lookup |-> PriceLookup(ebu_price_df)]
    /\ prev' = pag_df
    /\ pc' = "done"
    /\ UNCHANGED <<old_df, loopvars, inputs, ship_latest_dates, shipped_map, reports,
                   ebu_price_df, revenue_pivot, delta_cutoff_dt, delta_out, run_all_out>>

NextProcess ==
    \/ ProcessStep1
    \/ ProcessRaise
    \/ ProcessStep2

SpecProcess == InitProcess /\ [][NextProcess]_vars

(***************************************************************************)
(* C8                                                                      *)
(***************************************************************************)
ShipRowsOf(k) == {i \in 1..Len(ship_df) : ship_df[i].part = k[1] /\ ship_df[i].po = k[2]}

\* the key's cutoff: its latest slip date when it occurs in the shipment
\* log (NaT, the least value, when none of its slips is a date), the
\* caller's cutoff otherwise
C8_Cutoff(k) ==
    IF ShipRowsOf(k) # {}
    THEN CHOOSE d \in {ship_df[i].slip : i \in ShipRowsOf(k)} :
            \A i \in ShipRowsOf(k) : ship_df[i].slip <= d
    ELSE cutoff_dt

\* the EBU rows of the key with a ship date strictly after its cutoff
C8_Counted(k) ==
    {i \in 1..Len(ebu_qty_df) :
        /\ ebu_qty_df[i].part = k[1] /\ ebu_qty_df[i].po = k[2]
        /\ ebu_qty_df[i].date # NaT
        /\ C8_Cutoff(k) \notin {NaT, NoCutoff}
        /\ ebu_qty_df[i].date > C8_Cutoff(k)}

C8_Sum(k) == SumOver([i \in 1..Len(ebu_qty_df) |-> ebu_qty_df[i].qty], C8_Counted(k))

C8_PagKeys ==
    {<<pag_df[i].part, pag_df[i].po>> :
        i \in {j \in 1..Len(pag_df) : pag_df[j].part # NoPart /\ pag_df[j].po # NoPO}}

\* C8: when /process completes, for every (Part, PO) key of the PAG the
\* quantity round 2 downcounts is the sum of (f) Qty over the EBU rows of
\* that key whose Ship Date is strictly after the key's cutoff: the latest
\* slip date of the key if the shipment log has it, the caller's cutoff
\* date if not. Rows on or before the cutoff or without a ship date are
\* not counted, and the key's lines end as one downcount by that sum
\* leaves them.
C8_EbuQuantityAfterCutoff ==
    pc = "done" =>
        \A k \in C8_PagKeys :
            /\ k \in DOMAIN ebu_counts => ebu_counts[k] = C8_Sum(k)
            /\ k \notin DOMAIN ebu_counts => C8_Sum(k) = 0
            /\ LET want == Downcount(prev, k[1], k[2], C8_Sum(k)).df IN
               \A i \in 1..Len(pag_df) :
                   pag_df[i].part = k[1] /\ pag_df[i].po = k[2] => pag_df[i] = want[i]

\* a PAG key of the shipment log with an EBU row on its latest slip date
\* and one after it, which was downcounted
C8_Witness ==
    /\ pc = "done"
    /\ \E k \in C8_PagKeys :
          /\ ShipRowsOf(k) # {}
          /\ C8_Sum(k) > 0
          /\ \E i \in 1..Len(ebu_qty_df) :
                /\ ebu_qty_df[i].part = k[1] /\ ebu_qty_df[i].po = k[2]
                /\ ebu_qty_df[i].date = C8_Cutoff(k)
          /\ \E i \in 1..Len(pag_df) :
                /\ pag_df[i].part = k[1] /\ pag_df[i].po = k[2]
                /\ pag_df[i].qty < prev[i].qty

(***************************************************************************)
(* C13                                                                     *)
(***************************************************************************)
\* the (Part, PO) keys of the PAG, both parts non-null, that no row of the
\* shipment log has
C13_Missing ==
    {k \in C8_PagKeys : \A i \in 1..Len(ship_df) : <<ship_df[i].part, ship_df[i].po>> # k}

\* the request has a missing key and no cutoff date
C13_MissingAndNoCutoff == C13_Missing # {} /\ cutoff_dt = NoCutoff

\* the sum of (f) Qty over the EBU rows of a key after the supplied cutoff
C13_EbuAfterCutoff(k) ==
    SumOver([i \in 1..Len(ebu_qty_df) |-> ebu_qty_df[i].qty],
            {i \in 1..Len(ebu_qty_df) :
                /\ ebu_qty_df[i].part = k[1] /\ ebu_qty_df[i].po = k[2]
                /\ ebu_qty_df[i].date # NaT /\ cutoff_dt \notin {NoCutoff, NaT}
                /\ ebu_qty_df[i].date > cutoff_dt})

\* C13: /process raises the ValueError and returns no workbook exactly
\* when some (Part, PO) key of the PAG, both parts non-null, is absent
\* from the shipment log and no cutoff date was supplied.  When a cutoff
\* is supplied or no key is missing the request completes with its
\* workbook, and every missing key is downcounted by the EBU quantity
\* after the supplied cutoff: its lines end as one downcount by that
\* quantity leaves them, and the quantity, when not 0, is its one row of
\* Step2_Downcount.
C13_ValueErrorIffMissingKeyAndNoCutoff ==
    /\ pc = "ebu" =>
          /\ process_out = <<>>
          /\ RaisesValueError(pag_df, ship_latest_dates, cutoff_dt) <=> C13_MissingAndNoCutoff
    /\ pc = "error" => C13_MissingAndNoCutoff /\ process_out = <<>>
    /\ pc = "done" =>
          /\ ~C13_MissingAndNoCutoff
          /\ process_out.Updated = pag_df
          /\ \A k \in C13_Missing :
                /\ LET want == Downcount(prev, k[1], k[2], C13_EbuAfterCutoff(k)).df IN
                   \A i \in 1..Len(pag_df) :
                       pag_df[i].part = k[1] /\ pag_df[i].po = k[2] => pag_df[i] = want[i]
                /\ LET rows == {i \in 1..Len(process_out.Step2_Downcount) :
                                   /\ process_out.Step2_Downcount[i].Material = k[1]
                                   /\ process_out.Step2_Downcount[i].PO = k[2]}
                   IN IF C13_EbuAfterCutoff(k) = 0 THEN rows = {}
                      ELSE /\ Cardinality(rows) = 1
                           /\ \A i \in rows :
                                 process_out.Step2_Downcount[i].Step2_Downcount
                                     = C13_EbuAfterCutoff(k)

\* a request that raised: a key of the PAG is missing from a shipment log
\* that has rows, and no cutoff was supplied
C13_Witness ==
    /\ pc = "error"
    /\ ship_df # <<>>
    /\ C13_Missing # {} /\ C13_Missing # C8_PagKeys

\* a request with a missing key and a cutoff that completed, the key's
\* lines downcounted by its EBU rows after the cutoff
C13_Completed ==
    /\ pc = "done"
    /\ cutoff_dt = 2
    /\ \E k \in C13_Missing :
          /\ C13_EbuAfterCutoff(k) > 0
          /\ \E i \in 1..Len(pag_df) :
                pag_df[i].part = k[1] /\ pag_df[i].po = k[2] /\ pag_df[i].qty < prev[i].qty
          /\ \E i \in 1..Len(ebu_qty_df) :
                /\ ebu_qty_df[i].part = k[1] /\ ebu_qty_df[i].po = k[2]
                /\ ebu_qty_df[i].date = cutoff_dt

(***************************************************************************)
(* delta_report: the EBU downcount of the old snapshot, the Month column,  *)
(* the two groupby sums, their outer merge, the Delta pivot and the        *)
(* Cumulative sheet.                                                       *)
(*                                                                         *)
(* A month is the number of the calendar month a day falls in; the Month   *)
(* of a missing date is the string "NaT", which sorts after every          *)
(* "YYYY-MM".  A pivot is [index, columns, val]: its (Material, PO) rows   *)
(* in order, its month columns in order, and the cell of each.             *)
(***************************************************************************)
\* str(NaT): greater than every month
NaTMonth == 99

\* df["Month"] = df["Stat_Rel_Date"].dt.to_period("M").astype(str)
Month(date) == IF date = NaT THEN NaTMonth ELSE ((date - 1) \div DaysPerMonth) + 1

\* ebu_tx: the EBU rows with a Ship Date after cutoff_dt, summed per key
DeltaEbuCounts(ebu, cutoff) ==
    LET tx == {i \in 1..Len(ebu) : IsAfter(ebu[i].date, cutoff)} IN
    [k \in {Key(ebu[i]) : i \in {j \in tx : ebu[j].part # NoPart /\ ebu[j].po # NoPO}} |->
        SumOver([i \in 1..Len(ebu) |-> ebu[i].qty], tx \cap GroupRows(ebu, k))]

Group(row) == <<row.part, row.po, Month(row.date)>>

\* df.groupby(["Material", "Purchasing Document", "Month"])[qty].sum()
Grouped(df) ==
    LET rows == {i \in 1..Len(df) : df[i].part # NoPart /\ df[i].po # NoPO} IN
    [g \in {Group(df[i]) : i \in rows} |->
        SumOver([i \in 1..Len(df) |-> df[i].qty], {i \in rows : Group(df[i]) = g})]

\* a Delta with the snapshots the wrong way round
DeltaReversed(new_qty, old_qty) == old_qty - new_qty

\* merged["Delta"] = merged["New_Qty"] - merged["Old_Qty"]
Delta(new_qty, old_qty) == new_qty - old_qty

\* pd.merge(new_grouped, old_grouped, on=[...], how="outer").fillna(0)
Merged(new, old) ==
    LET n == Grouped(new)
        o == Grouped(old)
    IN [g \in DOMAIN n \cup DOMAIN o |->
           LET new_qty == IF g \in DOMAIN n THEN n[g] ELSE 0
               old_qty == IF g \in DOMAIN o THEN o[g] ELSE 0
           IN [New_Qty |-> new_qty, Old_Qty |-> old_qty, Delta |-> Delta(new_qty, old_qty)]]

\* sorted(month columns)
RECURSIVE SortedMonths(_)
SortedMonths(S) ==
    IF S = {} THEN <<>>
    ELSE LET m == CHOOSE x \in S : \A y \in S : x <= y IN
         <<m>> \o SortedMonths(S \ {m})

\* merged.pivot_table(index=[Material, PO], columns="Month", values="Delta",
\*                    aggfunc="sum", fill_value=0), columns sorted
Pivot(merged) ==
    LET keys == {<<g[1], g[2]>> : g \in DOMAIN merged}
        months == {g[3] : g \in DOMAIN merged}
    IN [index |-> SortedKeys(keys),
        columns |-> SortedMonths(months),
        val |-> [k \in keys, m \in months |->
                    IF <<k[1], k[2], m>> \in DOMAIN merged
                    THEN merged[<<k[1], k[2], m>>].Delta
                    ELSE 0]]

\* a loop that adds the Delta sheet's previous column, not the running one
RECURSIVE CumulativePairwise(_, _, _)
CumulativePairwise(val, month_cols, i) ==
    IF i > Len(month_cols) THEN val
    ELSE LET rest == CumulativePairwise(val, month_cols, i + 1) IN
         [k \in {x[1] : x \in DOMAIN val}, m \in {x[2] : x \in DOMAIN val} |->
             IF m = month_cols[i] THEN val[k, month_cols[i - 1]] + val[k, m] ELSE rest[k, m]]

\* for i in range(1, len(month_cols)):
\*     cumulative[month_cols[i]] = cumulative[month_cols[i-1]] + cumulative[month_cols[i]]
\* (i counts the columns from 1 here, so the loop starts at the second)
RECURSIVE CumulativeLoop(_, _, _)
CumulativeLoop(val, month_cols, i) ==
    IF i > Len(month_cols) THEN val
    ELSE CumulativeLoop(
            [k \in {x[1] : x \in DOMAIN val}, m \in {x[2] : x \in DOMAIN val} |->
                IF m = month_cols[i] THEN val[k, month_cols[i - 1]] + val[k, m] ELSE val[k, m]],
            month_cols, i + 1)

\* cumulative = pivot.copy(), then the loop
Cumulative(pv) == [pv EXCEPT !.val = CumulativeLoop(pv.val, pv.columns, 2)]

\* the Delta sheet after the loop: the loop wrote to a copy
PivotAfterCumulative(pv, cum) == pv

(***************************************************************************)
(* The price lookup and the Revenue sheet.  A price row is                 *)
(* [part, po, price]: Material, Purchasing Document after clean_po, and    *)
(* the "(g) Unit/Lot (Repair) Price" cell; the rows of all EBU sheets that *)
(* have the price column, in the order parse_ebu concatenates them.        *)
(***************************************************************************)
\* delta_report 385-387 on the Price_Lookup sheet: clean_po again, and
\* Unit_Price made numeric again
PriceDf(sheet) == [i \in 1..Len(sheet) |-> [sheet[i] EXCEPT !.price = ToNumeric(@)]]

\* merged.merge(price_df, on=[Material, PO], how="left").fillna({"Unit_Price": 0});
\* merged_price["Revenue"] = Delta * Unit_Price, summed per cell by the
\* pivot: a merged row comes once for every price row of its key, and once
\* with price 0 when there is none
Revenue(merged, price_df, g) ==
    LET hits == {i \in 1..Len(price_df) : Key(price_df[i]) = <<g[1], g[2]>>} IN
    IF hits = {} THEN merged[g].Delta * 0
    ELSE SumOver([i \in 1..Len(price_df) |-> merged[g].Delta * price_df[i].price], hits)

\* merged_price.pivot_table(index=[Material, PO], columns="Month",
\*                          values="Revenue", aggfunc="sum", fill_value=0)
RevenuePivot(merged, price_df) ==
    LET keys == {<<g[1], g[2]>> : g \in DOMAIN merged}
        months == {g[3] : g \in DOMAIN merged}
    IN [index |-> SortedKeys(keys),
        columns |-> SortedMonths(months),
        val |-> [k \in keys, m \in months |->
                    IF <<k[1], k[2], m>> \in DOMAIN merged
                    THEN Revenue(merged, price_df, <<k[1], k[2], m>>)
                    ELSE 0]]

(***************************************************************************)
(* Inputs of the delta specification.                                      *)
(***************************************************************************)
DatedRow(k, q, d) == [part |-> k[1], po |-> k[2], qty |-> q, na |-> FALSE, date |-> d]

StatDates == {NaT} \cup 1..MaxStatDay

\* the lines of the new and the old snapshot: a date, a blank date, a
\* blank PO, and a date cell holding text
NewRows == {DatedRow(k, MaxQty, d) : k \in ProcessKeys, d \in StatDates}
               \cup {DatedRow(<<"P1", NoPO>>, MaxQty, 1)}
               \cup {DatedRow(<<"P1", 1>>, MaxQty, TextDate)}
OldRows == {DatedRow(k, 1, d) : k \in ProcessKeys, d \in StatDates}
               \cup {DatedRow(<<"P1", NoPO>>, 1, 1)}
               \cup {DatedRow(<<"P1", 1>>, 1, TextDate)}

NewFrames == UNION {[1..n -> NewRows] : n \in 0..MaxDeltaRows}
OldFrames == UNION {[1..n -> OldRows] : n \in 0..MaxDeltaRows}

DeltaEbuRows == [part : Parts, po : {1}, date : {2, 3}, qty : {1}]
DeltaEbuFrames == UNION {[1..n -> DeltaEbuRows] : n \in 0..1}

PriceRow(k, p) == [part |-> k[1], po |-> k[2], price |-> p]
PriceRows == {PriceRow(<<"P1", 1>>, 2), PriceRow(<<"P1", 1>>, NaNPrice),
              PriceRow(<<"P2", 1>>, 3)}
PriceFrames == UNION {[1..n -> PriceRows] : n \in 0..MaxPriceRows}

InitDelta ==
    /\ pc = "delta"
    /\ new_df \in NewFrames
    /\ old_df \in OldFrames
    /\ ebu_qty_df \in DeltaEbuFrames
    /\ cutoff_dt = 2
    /\ pag_df = <<>> /\ ship_df = <<>>
    /\ part = NoPart /\ po = NoPO /\ requested = 0 /\ qty_to_remove = 0
    /\ NoStep2Keys
    /\ prev = <<>>
    /\ ship_latest_dates = <<>> /\ shipped_map = <<>> /\ ebu_counts = <<>>
    /\ pivot = <<>> /\ cumulative = <<>>
    /\ NoPrices /\ NoCalls

\* delta_report 303-327: the EBU downcount of the old snapshot
DeltaOldRound ==
    /\ pc = "delta"
    /\ ebu_counts' = DeltaEbuCounts(ebu_qty_df, cutoff_dt)
    /\ old_df' = Step2Round(old_df, DeltaEbuCounts(ebu_qty_df, cutoff_dt))
    /\ prev' = old_df
    /\ pc' = "pivot"
    /\ UNCHANGED <<pag_df, loopvars, inputs, ship_latest_dates, shipped_map, reports, prices, calls>>

\* delta_report 329-378: Stat_Rel_Date and Month of both snapshots, the
\* groupby sums, the merge, the pivot
DeltaPivot ==
    /\ pc = "pivot"
    /\ pivot' = Pivot(Merged(StatRelDate(new_df), StatRelDate(old_df)))
    /\ pc' = "cumulative"
    /\ UNCHANGED <<pag_df, old_df, loopvars, prev, inputs, maps, new_df, cumulative, prices, calls>>

\* delta_report 380-383: the Cumulative sheet
DeltaCumulative ==
    /\ pc = "cumulative"
    /\ cumulative' = Cumulative(pivot)
    /\ pivot' = PivotAfterCumulative(pivot, Cumulative(pivot))
    /\ pc' = "done"
    /\ UNCHANGED <<pag_df, old_df, loopvars, prev, inputs, maps, new_df, prices, calls>>

\* delta_report 296 and 385-409: the Price_Lookup sheet of new_file, which
\* /process wrote from the price rows of its EBU workbook, and the Revenue
\* sheet
DeltaRevenue ==
    /\ pc = "done"
    /\ \E rows \in PriceFrames :
          /\ ebu_price_df' = rows
          /\ price_lookup' = PriceLookup(rows)
          /\ revenue_pivot' = RevenuePivot(Merged(StatRelDate(new_df), StatRelDate(old_df)),
                                            PriceDf(PriceLookup(rows)))
    /\ pc' = "written"
    /\ UNCHANGED <<pag_df, old_df, loopvars, prev, inputs, maps, reports, calls>>

NextDelta ==
    \/ DeltaOldRound
    \/ DeltaPivot
    \/ DeltaCumulative
    \/ DeltaRevenue

SpecDelta == InitDelta /\ [][NextDelta]_vars

(***************************************************************************)
(* C9                                                                      *)
(***************************************************************************)
HasKey(row) == row.part # NoPart /\ row.po # NoPO

\* the (Material, PO) keys and the months of the lines of either snapshot
C9_Keys ==
    {<<new_df[i].part, new_df[i].po>> : i \in {j \in 1..Len(new_df) : HasKey(new_df[j])}}
        \cup {<<old_df[i].part, old_df[i].po>> : i \in {j \in 1..Len(old_df) : HasKey(old_df[j])}}

\* the month of a line: the year-month of its Stat.-Rel. date, and the one
\* month "NaT" for every line whose date cell is blank or no date
C9_Month(row) ==
    IF row.date \in {NaT, TextDate} THEN NaTMonth
    ELSE ((row.date - 1) \div DaysPerMonth) + 1

C9_Months ==
    {C9_Month(new_df[i]) : i \in {j \in 1..Len(new_df) : HasKey(new_df[j])}}
        \cup {C9_Month(old_df[i]) : i \in {j \in 1..Len(old_df) : HasKey(old_df[j])}}

\* the sum of the quantity over a snapshot's lines of one key and month
C9_Qty(df, k, m) ==
    SumOver([i \in 1..Len(df) |-> df[i].qty],
            {i \in 1..Len(df) :
                df[i].part = k[1] /\ df[i].po = k[2] /\ C9_Month(df[i]) = m})

\* what the EBU rows after the cutoff take from the old snapshot's key
C9_EbuQty(k) ==
    SumOver([i \in 1..Len(ebu_qty_df) |-> ebu_qty_df[i].qty],
            {i \in 1..Len(ebu_qty_df) :
                /\ ebu_qty_df[i].part = k[1] /\ ebu_qty_df[i].po = k[2]
                /\ ebu_qty_df[i].date # NaT /\ ebu_qty_df[i].date > cutoff_dt})

C9_OldQty(df, k) ==
    SumOver([i \in 1..Len(df) |-> df[i].qty],
            {i \in 1..Len(df) : df[i].part = k[1] /\ df[i].po = k[2]})

C9_OldPositive(df, k) ==
    SumOver([i \in 1..Len(df) |-> df[i].qty],
            {i \in 1..Len(df) : df[i].part = k[1] /\ df[i].po = k[2] /\ Positive(df[i])})

\* C9: in the Delta report every cell (Material, PO, Month) is the sum of
\* the quantity over the new snapshot's lines of that key and month minus
\* the same sum over the old snapshot's lines after their EBU downcount (a
\* key and month in one snapshot only counts 0 for the other); there is
\* exactly one row per (Material, PO) of either snapshot, and the month
\* columns are those of either snapshot in ascending order.
C9_DeltaIsNewMinusOld ==
    pc \in {"cumulative", "done"} =>
        /\ {pivot.index[i] : i \in 1..Len(pivot.index)} = C9_Keys
        /\ Len(pivot.index) = Cardinality(C9_Keys)
        /\ {pivot.columns[j] : j \in 1..Len(pivot.columns)} = C9_Months
        /\ \A i, j \in 1..Len(pivot.columns) : i < j => pivot.columns[i] < pivot.columns[j]
        /\ \A k \in C9_Keys, m \in C9_Months :
              pivot.val[k, m] = C9_Qty(new_df, k, m) - C9_Qty(old_df, k, m)
        /\ \A k \in C9_Keys :
              C9_OldQty(prev, k) - C9_OldQty(old_df, k)
                  = IF C9_EbuQty(k) <= 0 THEN 0 ELSE Min(C9_EbuQty(k), C9_OldPositive(prev, k))

\* a key with both snapshots in one month, the old one downcounted, beside
\* a cell that only one snapshot fills
C9_Witness ==
    /\ pc = "cumulative"
    /\ old_df # prev
    /\ Len(pivot.index) = 2
    /\ \E k \in C9_Keys, m, n \in C9_Months :
          /\ C9_Qty(new_df, k, m) > 0 /\ C9_Qty(prev, k, m) > 0
          /\ pivot.val[k, m] > 0
          /\ C9_Qty(new_df, k, n) = 0 /\ pivot.val[k, n] < 0

(***************************************************************************)
(* C10                                                                     *)
(***************************************************************************)
C10_DeltaUpTo(k, n) ==
    SumOver([j \in 1..Len(pivot.columns) |-> pivot.val[k, pivot.columns[j]]], 1..n)

\* C10: in the Cumulative report the k-th month column of every
\* (Material, PO) row is the sum of the row's Delta over month columns
\* 1..k of the Delta report, so the first column equals Delta and the last
\* is the row's total; the rows and columns are those of the Delta report,
\* which is the same after the computation as before it.
C10_CumulativeIsRunningSum ==
    pc = "done" =>
        /\ cumulative.index = pivot.index
        /\ cumulative.columns = pivot.columns
        /\ \A i \in 1..Len(pivot.index), n \in 1..Len(pivot.columns) :
              cumulative.val[pivot.index[i], pivot.columns[n]]
                  = C10_DeltaUpTo(pivot.index[i], n)
        /\ \A k \in C9_Keys, m \in C9_Months :
              pivot.val[k, m] = C9_Qty(new_df, k, m) - C9_Qty(old_df, k, m)

\* a row with a Delta other than 0 in each of three month columns
C10_Witness ==
    /\ pc = "done"
    /\ Len(pivot.columns) >= 3
    /\ \E i \in 1..Len(pivot.index) :
          \A n \in 1..3 : pivot.val[pivot.index[i], pivot.columns[n]] # 0

(***************************************************************************)
(* C11                                                                     *)
(***************************************************************************)
\* the price rows of a key in the EBU sheets, in the order seen
C11_Seen(k) ==
    {i \in 1..Len(ebu_price_df) : ebu_price_df[i].part = k[1] /\ ebu_price_df[i].po = k[2]}

\* the unit price of a key: the last one seen (0 when that cell is not a
\* number), 0 when none was seen
C11_UnitPrice(k) ==
    IF C11_Seen(k) = {} THEN 0
    ELSE LET last == CHOOSE i \in C11_Seen(k) : \A j \in C11_Seen(k) : j <= i
             price == ebu_price_df[last].price
         IN IF price = NaNPrice THEN 0 ELSE price

\* C11: in the Revenue report every cell (Material, PO, Month) is the
\* cell's Delta times the unit price looked up for (Material, PO); the
\* lookup holds at most one price per (Material, PO), the last one seen in
\* the EBU sheets, and a key without a price has Revenue 0.  The Revenue
\* sheet has the rows and month columns of the Delta sheet.
C11_RevenueIsDeltaTimesPrice ==
    pc = "written" =>
        /\ \A i, j \in 1..Len(price_lookup) :
              Key(price_lookup[i]) = Key(price_lookup[j]) => i = j
        /\ \A i \in 1..Len(price_lookup) :
              /\ C11_Seen(Key(price_lookup[i])) # {}
              /\ price_lookup[i].price = C11_UnitPrice(Key(price_lookup[i]))
        /\ \A k \in C9_Keys :
              C11_Seen(k) # {} => \E i \in 1..Len(price_lookup) : Key(price_lookup[i]) = k
        /\ revenue_pivot.index = pivot.index
        /\ revenue_pivot.columns = pivot.columns
        /\ \A k \in C9_Keys, m \in C9_Months :
              revenue_pivot.val[k, m] = pivot.val[k, m] * C11_UnitPrice(k)

\* a key whose price was seen twice, the last one being another and not 0,
\* with a Revenue other than 0, beside a key without a price whose Delta
\* is not 0
C11_Witness ==
    /\ pc = "written"
    /\ \E k, n \in C9_Keys, m \in C9_Months :
          /\ Cardinality(C11_Seen(k)) = 2
          /\ \E i, j \in C11_Seen(k) : ebu_price_df[i].price # ebu_price_df[j].price
          /\ C11_UnitPrice(k) > 0
          /\ revenue_pivot.val[k, m] # 0
          /\ C11_Seen(n) = {}
          /\ pivot.val[n, m] # 0
          /\ revenue_pivot.val[n, m] = 0

(***************************************************************************)
(* The three requests as a whole.  The workbook a request returns is a     *)
(* record of its sheets.                                                   *)
(***************************************************************************)
\* to_excel(..., index=False) and then parse() of the sheet: the rows in
\* order under a fresh index; a missing value is written as an empty cell
\* and an empty cell is read as missing, text stays text, a date a date
ReadSheet(sheet) == [i \in 1..Len(sheet) |-> sheet[i]]

\* process_files as a whole
ProcessFiles(pag, ship, ebu, price_rows, cutoff, order) ==
    LET latest == ShipLatestDates(ship)
        shipped == ShippedMap(ship)
        step1 == RoundInOrder(pag, [k \in DOMAIN shipped |-> Step1Qty(shipped[k])],
                              SortedKeys(DOMAIN shipped), 1)
        counts == EbuCounts(step1, latest, ebu, cutoff)
        keys == EbuCountKeys(step1, latest, ebu, cutoff, order)
        step2 == RoundInOrder(step1, counts, keys, 1)
    IN IF RaisesValueError(step1, latest, cutoff)
       THEN [error |-> "ValueError"]
       ELSE [Updated |-> CoerceDates(step2),
             Latest_Dates |-> LatestSheet(latest),
             Step1_Downcount |-> Step1Sheet(shipped),
             Step2_Downcount |-> Step2Sheet(counts, keys),
             Price_Lookup |-> PriceLookup(price_rows)]

\* delta_report as a whole, on the workbook /process returned
DeltaReport(new_xl, old, ebu, cutoff) ==
    LET new == ReadSheet(new_xl.Updated)
        price == ReadSheet(new_xl.Price_Lookup)
        counts == DeltaEbuCounts(ebu, cutoff)
        old_down == RoundInOrder(old, counts, SortedKeys(DOMAIN counts), 1)
        merged == Merged(StatRelDate(new), StatRelDate(old_down))
        pv == Pivot(merged)
    IN [Delta_Report |-> PivotAfterCumulative(pv, Cumulative(pv)),
        Cumulative |-> Cumulative(pv),
        Revenue |-> RevenuePivot(merged, PriceDf(price))]

\* run_all 515-533: B) without the test of the cutoff, which is always set
RunAllEbuCountsMissing(pag, latest, ebu, cutoff) ==
    [k \in {x \in MissingShipKeys(pag, latest) : EbuQty(ebu, x, cutoff) # 0}
        |-> EbuQty(ebu, k, cutoff)]

\* run_all as a whole
RunAll(pag, ship, ebu, price_rows, old, process_cutoff, delta_cutoff, order) ==
    LET latest == ShipLatestDates(ship)
        shipped == ShippedMap(ship)
        step1 == RoundInOrder(pag, [k \in DOMAIN shipped |-> Step1Qty(shipped[k])],
                              SortedKeys(DOMAIN shipped), 1)
        a == EbuCountsShip(latest, ebu)
        b == RunAllEbuCountsMissing(step1, latest, ebu, process_cutoff)
        counts_new == [k \in DOMAIN a \cup DOMAIN b |-> IF k \in DOMAIN b THEN b[k] ELSE a[k]]
        keys == SortedKeys(DOMAIN a) \o InOrder(DOMAIN b, order, 1)
        pag_output == RoundInOrder(step1, counts_new, keys, 1)
        price == PriceLookup(price_rows)
        counts_old == DeltaEbuCounts(ebu, delta_cutoff)
        old_down == RoundInOrder(old, counts_old, SortedKeys(DOMAIN counts_old), 1)
        merged == Merged(StatRelDate(pag_output), StatRelDate(old_down))
        pv == Pivot(merged)
    IN [Updated |-> pag_output,
        Latest_Dates |-> LatestSheet(latest),
        Step1_Downcount |-> Step1Sheet(shipped),
        Step2_Downcount |-> Step2Sheet(counts_new, keys),
        Price_Lookup |-> price,
        Delta_Report |-> PivotAfterCumulative(pv, Cumulative(pv)),
        Cumulative |-> Cumulative(pv),
        Revenue |-> RevenuePivot(merged, PriceDf(price))]

(***************************************************************************)
(* SpecCalls: the same files sent to /run-all, and to /process and then    *)
(* /delta with the workbook /process returned.  The shipment file has up   *)
(* to MaxCallShipRows rows, of one key or of two; the longest shipment     *)
(* files come with an old PAG and price columns without rows, which take   *)
(* no part in the two downcount rounds.                                    *)
(***************************************************************************)
CallPagRows == {DatedRow(k, q, 1) : k \in ProcessKeys, q \in 1..MaxQty}
                   \cup {DatedRow(k, MaxQty, TextDate) : k \in ProcessKeys}
CallPagFrames == UNION {[1..n -> CallPagRows] : n \in 0..MaxCallRows}

CallShipRows == [part : Parts, po : {1}, total : {-1, 2}, slip : {1}]
CallShipFrames == UNION {[1..n -> CallShipRows] : n \in 0..MaxCallShipRows}

CallEbuFrames == UNION {[1..n -> DeltaEbuRows] : n \in 0..MaxCallRows}

CallOldRows == {DatedRow(k, 1, d) : k \in ProcessKeys, d \in {1, 3}}
CallOldFrames == UNION {[1..n -> CallOldRows] : n \in 0..MaxCallSideRows}

CallPriceFrames == UNION {[1..n -> PriceRows] : n \in 0..MaxCallSideRows}

InitCalls ==
    /\ pc = "start"
    /\ pag_df \in CallPagFrames
    /\ ship_df \in CallShipFrames
    /\ ebu_qty_df \in CallEbuFrames
    /\ ebu_price_df \in CallPriceFrames
    /\ old_df \in CallOldFrames
    /\ Len(ship_df) > MaxCallSideRows => old_df = <<>> /\ ebu_price_df = <<>>
    /\ cutoff_dt \in {1, 2}
    /\ delta_cutoff_dt = 2
    /\ set_order \in SetOrders
    /\ process_out = <<>> /\ delta_out = <<>> /\ run_all_out = <<>>
    /\ part = NoPart /\ po = NoPO /\ requested = 0 /\ qty_to_remove = 0
    /\ NoStep2Keys
    /\ prev = <<>>
    /\ ship_latest_dates = <<>> /\ shipped_map = <<>> /\ ebu_counts = <<>>
    /\ new_df = <<>> /\ pivot = <<>> /\ cumulative = <<>>
    /\ price_lookup = <<>> /\ revenue_pivot = <<>>

\* POST /run-all
CallRunAll ==
    /\ pc = "start"
    /\ run_all_out' = RunAll(pag_df, ship_df, ebu_qty_df, ebu_price_df, old_df,
                             cutoff_dt, delta_cutoff_dt, set_order)
    /\ pc' = "run-all"
    /\ UNCHANGED <<pag_df, old_df, loopvars, prev, inputs, maps, reports, prices,
                   delta_cutoff_dt, set_order, process_out, delta_out>>

\* POST /process with process_cutoff_date
CallProcess ==
    /\ pc = "run-all"
    /\ process_out' = ProcessFiles(pag_df, ship_df, ebu_qty_df, ebu_price_df,
                                   cutoff_dt, set_order)
    /\ pc' = "process"
    /\ UNCHANGED <<pag_df, old_df, loopvars, prev, inputs, maps, reports, prices,
                   delta_cutoff_dt, set_order, delta_out, run_all_out>>

\* POST /delta with the workbook of /process, the old PAG, the EBU workbook
\* and delta_cutoff_date
CallDelta ==
    /\ pc = "process"
    /\ delta_out' = DeltaReport(process_out, old_df, ebu_qty_df, delta_cutoff_dt)
    /\ pc' = "done"
    /\ UNCHANGED <<pag_df, old_df, loopvars, prev, inputs, maps, reports, prices,
                   delta_cutoff_dt, set_order, process_out, run_all_out>>

NextCalls ==
    \/ CallRunAll
    \/ CallProcess
    \/ CallDelta

SpecCalls == InitCalls /\ [][NextCalls]_vars

(***************************************************************************)
(* C12                                                                     *)
(***************************************************************************)
\* C12: for the same PAG, shipment, EBU and old-PAG files and valid cutoff
\* dates, the Updated, Step1_Downcount, Step2_Downcount, Price_Lookup,
\* Delta_Report, Cumulative and Revenue sheets of /run-all equal those of
\* /process with process_cutoff_date followed by /delta on its workbook
\* with delta_cutoff_date.
C12_RunAllEqualsTwoSteps ==
    pc = "done" =>
        /\ run_all_out.Updated = process_out.Updated
        /\ run_all_out.Step1_Downcount = process_out.Step1_Downcount
        /\ run_all_out.Step2_Downcount = process_out.Step2_Downcount
        /\ run_all_out.Price_Lookup = process_out.Price_Lookup
        /\ run_all_out.Delta_Report = delta_out.Delta_Report
        /\ run_all_out.Cumulative = delta_out.Cumulative
        /\ run_all_out.Revenue = delta_out.Revenue

(***************************************************************************)
(* C14                                                                     *)
(***************************************************************************)
\* the quantity round 1 removes for a key: the absolute value of the sum
\* of its shipment totals
C14_Round1(k) ==
    Abs(SumOver([i \in 1..Len(ship_df) |-> ship_df[i].total], ShipRowsOf(k)))

\* the quantities round 2 was given for a key
C14_Round2Rows(k) ==
    {i \in 1..Len(process_out.Step2_Downcount) :
        /\ process_out.Step2_Downcount[i].Material = k[1]
        /\ process_out.Step2_Downcount[i].PO = k[2]}

\* the two orders a round can take two keys in, and the one of fewer
C14_Orders(S) == {SortedKeys(S)} \cup {InOrder(S, o, 1) : o \in SetOrders}

\* the lines /process ends with when round 1 takes its keys in order o1 and
\* round 2 in order o2
C14_Lines(o1, o2) ==
    LET shipped == ShippedMap(ship_df)
        step1 == RoundInOrder(pag_df, [k \in DOMAIN shipped |-> Step1Qty(shipped[k])], o1, 1)
        counts == EbuCounts(step1, ShipLatestDates(ship_df), ebu_qty_df, cutoff_dt)
    IN CoerceDates(RoundInOrder(step1, counts, o2, 1))

\* the keys round 1 has a quantity for, and those round 2 was given one for
C14_Round1Keys == {<<ship_df[i].part, ship_df[i].po>> : i \in 1..Len(ship_df)}
C14_Round2Keys ==
    {<<process_out.Step2_Downcount[i].Material, process_out.Step2_Downcount[i].PO>> :
        i \in 1..Len(process_out.Step2_Downcount)}

\* C14: for order lines with non-negative quantities, the lines of every
\* (Part, PO) key after round 1 with quantity a >= 0 and round 2 with
\* quantity b >= 0 are those one downcount of the key by a + b leaves;
\* round 2 gets at most one quantity per key; and the final lines are the
\* same in whatever order the keys of round 1 and the keys of round 2 are
\* taken.
C14_RoundsAddAndCommute ==
    pc \in {"process", "done"} =>
        /\ \A k \in C8_PagKeys :
              /\ C14_Round1(k) >= 0 /\ C8_Sum(k) >= 0
              /\ LET want == CoerceDates(
                                 Downcount(pag_df, k[1], k[2], C14_Round1(k) + C8_Sum(k)).df)
                 IN \A i \in 1..Len(pag_df) :
                        pag_df[i].part = k[1] /\ pag_df[i].po = k[2]
                            => process_out.Updated[i] = want[i]
              /\ Cardinality(C14_Round2Rows(k)) <= 1
              /\ \A i \in C14_Round2Rows(k) :
                    process_out.Step2_Downcount[i].Step2_Downcount = C8_Sum(k)
        /\ DOMAIN ShippedMap(ship_df) = C14_Round1Keys
        /\ \A o1 \in C14_Orders(C14_Round1Keys), o2 \in C14_Orders(C14_Round2Keys) :
              C14_Lines(o1, o2) = process_out.Updated

\* a shipment file with two keys, each with lines of the PAG that round 1
\* reduced, so that round 1 has two orders to take them in; round 2 has a
\* quantity for each of the two as well, and one of them has a line that
\* round 1 left something of for round 2 to take
C14_Witness ==
    /\ pc = "process"
    /\ Cardinality(C14_Round1Keys) = 2
    /\ Cardinality(C14_Orders(C14_Round1Keys)) = 2
    /\ \A k \in C14_Round1Keys :
          /\ C14_Round1(k) > 0
          /\ \E i \in 1..Len(pag_df) :
                /\ pag_df[i].part = k[1] /\ pag_df[i].po = k[2]
                /\ process_out.Updated[i].qty < pag_df[i].qty
    /\ Cardinality(C14_Round2Keys) = 2
    /\ \E k \in C8_PagKeys :
          /\ C14_Round1(k) > 0 /\ C8_Sum(k) > 0
          /\ \E i \in 1..Len(pag_df) :
                /\ pag_df[i].part = k[1] /\ pag_df[i].po = k[2]
                /\ pag_df[i].qty > C14_Round1(k)
                /\ process_out.Updated[i].qty = pag_df[i].qty - C14_Round1(k) - C8_Sum(k)

\* round 2 took two keys in the order opposite to the groupby order: a key
\* of the shipment file, or a missing key, ahead of a missing key that sorts
\* before it; one key has a round-1 quantity too
C14_Round2OutOfOrder ==
    /\ pc = "process"
    /\ Len(process_out.Step2_Downcount) = 2
    /\ KeyOrd(<<process_out.Step2_Downcount[1].Material, process_out.Step2_Downcount[1].PO>>)
           > KeyOrd(<<process_out.Step2_Downcount[2].Material, process_out.Step2_Downcount[2].PO>>)
    /\ \E k \in C8_PagKeys :
          /\ C14_Round1(k) > 0 /\ C8_Sum(k) > 0
          /\ \E i \in 1..Len(pag_df) :
                /\ pag_df[i].part = k[1] /\ pag_df[i].po = k[2]
                /\ pag_df[i].qty > C14_Round1(k)
                /\ process_out.Updated[i].qty = pag_df[i].qty - C14_Round1(k) - C8_Sum(k)

====
